---- MODULE Spec2Model ----
(***************************************************************************)
(* A model of conx/konx.py: the Layer graph of a Network (connect, kind,   *)
(* chain, make_keras_layers, compile, propagate) and the Network's dataset *)
(* operations (load_dataset, split_dataset, reshuffle_dataset,             *)
(* rescale_inputs).                                                        *)
(*                                                                         *)
(* An attribute that Python has not assigned yet is the empty sequence     *)
(* <<>>; an assigned attribute holding v is the one-element sequence <<v>>.*)
(* Keras objects are modelled by what the program hands to them: a tensor  *)
(* is the input placeholder it starts from and the descriptors applied to  *)
(* it, a Model is its input and output tensors.                            *)
(***************************************************************************)
EXTENDS Integers, Sequences, FiniteSets, TLC

\* ------------------------------------------------------------------ bounds

\* at most this many connections are recorded in one Network
MaxConn == 2

\* a dataset file holds at most this many inputs, and this many labels
MaxLen == 2

\* depth of nested chain() calls after which the interpreter raises
\* RecursionError (1000 by default in CPython; scaled down, and larger than
\* the number of layers so that only a revisiting chain reaches it)
RecursionLimit == 4

\* ------------------------------------------------------- the demo Network

\* Network(Layer("input1",..), Layer("hidden",..), Layer("output1",..))
LayerSeq == <<"input1", "hidden", "output1">>

LayerNames == {LayerSeq[i] : i \in 1..Len(LayerSeq)}

\* the names connect is called with: the layers' and one
\* that is not a key of layer_dict
Names == LayerNames \cup {"missing"}

\* Layer.size, from shape
size(l) == CASE l = "input1" -> 2 [] l = "hidden" -> 2 [] OTHER -> 1

\* Layer.activation
activation(l) == CASE l = "input1" -> "linear" [] OTHER -> "sigmoid"

\* the dropout rates the layers are constructed with, in tenths
\* (0 <= dropout <= 1): input1 with or without dropout, hidden with, output1
\* without
Dropouts == {[l \in LayerNames |-> CASE l = "input1" -> d [] l = "hidden" -> 5
                                        [] OTHER -> 0] : d \in {0, 5}}

VARIABLES
    outgoing,        \* Layer.outgoing_connections, per layer
    incoming,        \* Layer.incoming_connections, per layer
    dropout,         \* Layer.dropout, per layer (tenths)
    model,           \* Network.model
    submodel,        \* Layer.model, per layer
    pc,              \* position of the running compile call, or "idle"
    idx,             \* compile: index in self.layers of the loop at line 133
    stack,           \* compile: the layers of the nested chain() calls
    input_layers,    \* compile: local input_layers
    output_layers,   \* compile: local output_layers
    chains,          \* compile: the value layer.chain() returned, per layer
    compiled_ok,     \* history: some compile call returned without error
    last,            \* the last call that returned: name, arguments, result
    inputs, labels, dataset_size, inputs_range, split,
    train_inputs, test_inputs, train_labels, test_labels,
    dlast            \* the last dataset call that returned

graph_vars == <<outgoing, incoming, dropout, model, submodel, pc, idx, stack,
                input_layers, output_layers, chains, compiled_ok, last>>

data_vars == <<inputs, labels, dataset_size, inputs_range, split,
               train_inputs, test_inputs, train_labels, test_labels>>

\* the dataset side of the Network, which the graph operations leave alone
data_all == <<data_vars, dlast>>

vars == <<graph_vars, data_all>>

\* ------------------------------------------------------------- sequences

Last(s) == s[Len(s)]

RECURSIVE Count(_, _)
Count(x, s) == IF s = <<>> THEN 0
               ELSE (IF Head(s) = x THEN 1 ELSE 0) + Count(x, Tail(s))

TotalEdges == LET RECURSIVE Sum(_)
                  Sum(i) == IF i = 0 THEN 0
                            ELSE Len(outgoing[LayerSeq[i]]) + Sum(i - 1)
              IN Sum(Len(LayerSeq))

\* ------------------------------------------------------------------ Layer

\* a mis-ordered test: a layer with incoming connections is never hidden
kind_outputFirst(l) ==
    IF Len(incoming[l]) = 0 /\ Len(outgoing[l]) = 0 THEN "unconnected"
    ELSE IF Len(incoming[l]) > 0 THEN "output"
    ELSE IF Len(incoming[l]) > 0 /\ Len(outgoing[l]) > 0 THEN "hidden"
    ELSE "input"

\* Layer.kind
kind(l) ==
    IF Len(incoming[l]) = 0 /\ Len(outgoing[l]) = 0 THEN "unconnected"
    ELSE IF Len(incoming[l]) > 0 /\ Len(outgoing[l]) > 0 THEN "hidden"
    ELSE IF Len(incoming[l]) > 0 THEN "output"
    ELSE "input"

\* keras.layers.Dense(units, activation=...)
Dense(units, act) == [type |-> "dense", units |-> units, act |-> act, rate |-> 0]

\* keras.layers.Dropout(rate)
Dropout(rate) == [type |-> "dropout", units |-> 0, act |-> "", rate |-> rate]

\* the dropout test taken as part of the else branch
make_keras_layers_noInputDropout(l) ==
    IF kind(l) = "input" THEN <<>>
    ELSE IF dropout[l] > 0
         THEN <<Dense(size(l), activation(l))>> \o <<Dropout(dropout[l])>>
         ELSE <<Dense(size(l), activation(l))>>

\* Layer.make_keras_layers
make_keras_layers(l) ==
    LET klayer == IF kind(l) = "input" THEN <<>>
                  ELSE <<Dense(size(l), activation(l))>>
    IN IF dropout[l] > 0 THEN klayer \o <<Dropout(dropout[l])>> ELSE klayer

\* ------------------------------------------------------------------ Keras

\* keras.layers.Input(shape=layer.shape): the placeholder of layer l
Input(l) == [src |-> l, ops |-> <<>>]

\* k(f) for each k of ks in turn
Apply(ks, f) == [f EXCEPT !.ops = @ \o ks]

\* keras.models.Model(inputs=..., outputs=...); a single tensor and a list
\* of tensors are told apart as Keras is handed them
KModel(ins, outs) == [ins |-> ins, outs |-> outs, configured |-> FALSE]

One(t) == [list |-> FALSE, items |-> <<t>>]

\* lines 142-145: a list of length 1 is replaced by its element
Unwrap(ts) == [list |-> Len(ts) # 1, items |-> ts]

NoCall == [op |-> "none", a |-> "", b |-> "", ok |-> TRUE]

Call(op, a, b, ok) == [op |-> op, a |-> a, b |-> b, ok |-> ok]

\* ---------------------------------------------------------------- Network

GraphInit ==
    /\ outgoing = [l \in LayerNames |-> <<>>]
    /\ incoming = [l \in LayerNames |-> <<>>]
    /\ dropout \in Dropouts
    /\ model = <<>>
    /\ submodel = [l \in LayerNames |-> <<>>]
    /\ pc = "idle"
    /\ idx = 0
    /\ stack = <<>>
    /\ input_layers = <<>>
    /\ output_layers = <<>>
    /\ chains = [l \in LayerNames |-> <<>>]
    /\ compiled_ok = FALSE
    /\ last = NoCall

\* to_layer looked up with self[to_layer_name], which gives None for an
\* unknown name: the None is appended before its attribute access fails
connect_lookupNone(from_layer_name, to_layer_name) ==
    /\ pc = "idle"
    /\ IF from_layer_name \notin LayerNames
       THEN /\ last' = Call("connect", from_layer_name, to_layer_name, FALSE)
            /\ UNCHANGED <<outgoing, incoming>>
       ELSE IF to_layer_name \notin LayerNames
       THEN /\ TotalEdges < MaxConn
            /\ outgoing' = [outgoing EXCEPT ![from_layer_name] = Append(@, "None")]
            /\ last' = Call("connect", from_layer_name, to_layer_name, FALSE)
            /\ UNCHANGED incoming
       ELSE /\ TotalEdges < MaxConn
            /\ outgoing' = [outgoing EXCEPT ![from_layer_name] = Append(@, to_layer_name)]
            /\ incoming' = [incoming EXCEPT ![to_layer_name] = Append(@, from_layer_name)]
            /\ last' = Call("connect", from_layer_name, to_layer_name, TRUE)
    /\ UNCHANGED <<dropout, model, submodel, pc, idx, stack, input_layers,
                   output_layers, chains, compiled_ok>>
    /\ UNCHANGED data_all

\* the second append made on the wrong object: to_layer is appended to
\* from_layer.incoming_connections
connect_wrongList(from_layer_name, to_layer_name) ==
    /\ pc = "idle"
    /\ IF from_layer_name \notin LayerNames \/ to_layer_name \notin LayerNames
       THEN /\ last' = Call("connect", from_layer_name, to_layer_name, FALSE)
            /\ UNCHANGED <<outgoing, incoming>>
       ELSE /\ TotalEdges < MaxConn
            /\ outgoing' = [outgoing EXCEPT ![from_layer_name] = Append(@, to_layer_name)]
            /\ incoming' = [incoming EXCEPT ![from_layer_name] = Append(@, to_layer_name)]
            /\ last' = Call("connect", from_layer_name, to_layer_name, TRUE)
    /\ UNCHANGED <<dropout, model, submodel, pc, idx, stack, input_layers,
                   output_layers, chains, compiled_ok>>
    /\ UNCHANGED data_all

\* Network.connect
connect(from_layer_name, to_layer_name) ==
    /\ pc = "idle"
    /\ IF from_layer_name \notin LayerNames
       THEN /\ last' = Call("connect", from_layer_name, to_layer_name, FALSE)
            /\ UNCHANGED <<outgoing, incoming>>
       ELSE IF to_layer_name \notin LayerNames
       THEN /\ last' = Call("connect", from_layer_name, to_layer_name, FALSE)
            /\ UNCHANGED <<outgoing, incoming>>
       ELSE /\ TotalEdges < MaxConn
            /\ outgoing' = [outgoing EXCEPT ![from_layer_name] = Append(@, to_layer_name)]
            /\ incoming' = [incoming EXCEPT ![to_layer_name] = Append(@, from_layer_name)]
            /\ last' = Call("connect", from_layer_name, to_layer_name, TRUE)
    /\ UNCHANGED <<dropout, model, submodel, pc, idx, stack, input_layers,
                   output_layers, chains, compiled_ok>>
    /\ UNCHANGED data_all

\* a caller's layer.kind()
Kind(l) ==
    /\ pc = "idle"
    /\ last' = Call("kind", l, kind(l), TRUE)
    /\ UNCHANGED <<outgoing, incoming, dropout, model, submodel, pc, idx, stack,
                   input_layers, output_layers, chains, compiled_ok>>
    /\ UNCHANGED data_all

\* Network.compile, lines 131-132
CompileBegin ==
    /\ pc = "idle"
    /\ pc' = "compiling"
    /\ idx' = 1
    /\ input_layers' = <<>>
    /\ output_layers' = <<>>
    /\ stack' = <<>>
    /\ chains' = [l \in LayerNames |-> <<>>]
    /\ last' = Call("compile", "", "running", FALSE)
    /\ UNCHANGED <<outgoing, incoming, dropout, model, submodel, compiled_ok>>
    /\ UNCHANGED data_all

\* Network.compile, lines 133-136: the next layer of self.layers; an input
\* layer gets its placeholder and layer.chain() is called
CompileLayer ==
    /\ pc = "compiling"
    /\ idx <= Len(LayerSeq)
    /\ IF kind(LayerSeq[idx]) = "input"
       THEN /\ input_layers' = Append(input_layers, Input(LayerSeq[idx]))
            /\ stack' = <<LayerSeq[idx]>>
            /\ pc' = "chain"
            /\ idx' = idx
       ELSE /\ idx' = idx + 1
            /\ UNCHANGED <<input_layers, stack, pc>>
    /\ UNCHANGED <<outgoing, incoming, dropout, model, submodel, output_layers,
                   chains, compiled_ok, last>>
    /\ UNCHANGED data_all

\* the layer a chain() call on l recurses into: the last outgoing connection
chain_next_lastBranch(l) == Last(outgoing[l])

\* Layer.chain, line 264: the layer the call recurses into
chain_next(l) == outgoing[l][1]

\* Layer.chain, line 264: the innermost call has outgoing connections and
\* calls chain() of the first of them
ChainDescend ==
    /\ pc = "chain"
    /\ Len(outgoing[Last(stack)]) # 0
    /\ Len(stack) < RecursionLimit
    /\ stack' = Append(stack, chain_next(Last(stack)))
    /\ UNCHANGED <<outgoing, incoming, dropout, model, submodel, pc, idx,
                   input_layers, output_layers, chains, compiled_ok, last>>
    /\ UNCHANGED data_all

\* Layer.chain, line 264: the nested call exceeds the interpreter's
\* recursion limit; the RecursionError leaves compile
ChainOverflow ==
    /\ pc = "chain"
    /\ Len(outgoing[Last(stack)]) # 0
    /\ Len(stack) >= RecursionLimit
    /\ pc' = "idle"
    /\ stack' = <<>>
    /\ last' = Call("compile", "", "RecursionError", FALSE)
    /\ UNCHANGED <<outgoing, incoming, dropout, model, submodel, idx,
                   input_layers, output_layers, chains, compiled_ok>>
    /\ UNCHANGED data_all

\* the tensor f after the layers c[1..i] of a chain (lines 138-139)
RECURSIVE Cumulative(_, _, _)
Cumulative(f, c, i) ==
    IF i = 0 THEN f ELSE Apply(make_keras_layers(c[i]), Cumulative(f, c, i - 1))

\* lines 137-140: c.model of every layer c of the chain, set in chain order
\* (a later c.model = ... replaces an earlier one)
RECURSIVE SetSubmodels(_, _, _, _)
SetSubmodels(sm, ph, c, i) ==
    IF i = 0 THEN sm
    ELSE [SetSubmodels(sm, ph, c, i - 1) EXCEPT
              ![c[i]] = <<KModel(One(ph), One(Cumulative(ph, c, i)))>>]

\* Layer.chain, line 262, and Network.compile, lines 137-141: the innermost
\* call has no outgoing connections, the calls return [self] + ..., and the
\* loop over the chain runs
ChainReturn ==
    /\ pc = "chain"
    /\ Len(outgoing[Last(stack)]) = 0
    /\ chains' = [chains EXCEPT ![LayerSeq[idx]] = <<stack>>]
    /\ submodel' = SetSubmodels(submodel, Last(input_layers), stack, Len(stack))
    /\ output_layers' = Append(output_layers,
                               Cumulative(Last(input_layers), stack, Len(stack)))
    /\ stack' = <<>>
    /\ idx' = idx + 1
    /\ pc' = "compiling"
    /\ UNCHANGED <<outgoing, incoming, dropout, model, input_layers,
                   compiled_ok, last>>
    /\ UNCHANGED data_all

\* Network.compile, lines 142-147. built: whether Keras accepts the Model
\* (left open for a Model without inputs); configured: whether Keras accepts
\* the build configuration in model.compile(**kwargs)
CompileFinish(built, configured) ==
    /\ pc = "compiling"
    /\ idx > Len(LayerSeq)
    /\ built \/ input_layers = <<>>
    /\ pc' = "idle"
    /\ IF ~built
       THEN /\ last' = Call("compile", "", "Model", FALSE)
            /\ UNCHANGED <<model, compiled_ok>>
       ELSE /\ model' = <<[KModel(Unwrap(input_layers), Unwrap(output_layers))
                             EXCEPT !.configured = configured]>>
            /\ last' = Call("compile", "", IF configured THEN "" ELSE "compile",
                            configured)
            /\ compiled_ok' = (compiled_ok \/ configured)
    /\ UNCHANGED <<outgoing, incoming, dropout, submodel, idx, stack,
                   input_layers, output_layers, chains>>
    /\ UNCHANGED data_all

\* Network.propagate. predicts: whether Keras evaluates a Model that no
\* build configuration was applied to
propagate(predicts) ==
    /\ pc = "idle"
    /\ predicts \/ (model # <<>> /\ ~model[1].configured)
    /\ last' = Call("propagate", "", "", model # <<>> /\ predicts)
    /\ UNCHANGED <<outgoing, incoming, dropout, model, submodel, pc, idx, stack,
                   input_layers, output_layers, chains, compiled_ok>>
    /\ UNCHANGED data_all

GraphNext ==
    \/ \E f \in Names, t \in Names : connect(f, t)
    \/ \E l \in LayerNames : Kind(l)
    \/ CompileBegin
    \/ CompileLayer
    \/ ChainDescend
    \/ ChainOverflow
    \/ ChainReturn
    \/ \E built \in BOOLEAN, configured \in BOOLEAN : CompileFinish(built, configured)
    \/ \E predicts \in BOOLEAN : propagate(predicts)

\* ------------------------------------------------------------ numpy values

\* array elements are rationals <<numerator, denominator>> in lowest terms
\* with a positive denominator (floating-point rounding is not modelled)
RECURSIVE GCD(_, _)
GCD(a, b) == IF b = 0 THEN a ELSE GCD(b, a % b)

Abs(n) == IF n < 0 THEN -n ELSE n

Rat(n, d) == LET g == GCD(Abs(n), Abs(d))
                 sgn == IF d < 0 THEN -1 ELSE 1
             IN <<(sgn * n) \div g, (sgn * d) \div g>>

RAdd(x, y) == Rat(x[1] * y[2] + y[1] * x[2], x[2] * y[2])
RSub(x, y) == Rat(x[1] * y[2] - y[1] * x[2], x[2] * y[2])
RMul(x, y) == Rat(x[1] * y[1], x[2] * y[2])
RDiv(x, y) == Rat(x[1] * y[2], x[2] * y[1])
RLess(x, y) == x[1] * y[2] < y[1] * x[2]

\* int(x) and astype(int): truncation toward zero
Trunc(x) == IF x[1] >= 0 THEN x[1] \div x[2] ELSE -((-x[1]) \div x[2])

Min2(a, b) == IF a <= b THEN a ELSE b

\* s[:k] and s[k:] for k >= 0
Prefix(s, k) == SubSeq(s, 1, Min2(k, Len(s)))
Suffix(s, k) == SubSeq(s, Min2(k, Len(s)) + 1, Len(s))

\* an array: its dtype and its elements
Array(dtype, items) == [dtype |-> dtype, items |-> items]

ArrPrefix(a, k) == Array(a.dtype, Prefix(a.items, k))
ArrSuffix(a, k) == Array(a.dtype, Suffix(a.items, k))

\* np.min, np.max of a non-empty array
RECURSIVE NpMin(_)
NpMin(s) == IF Len(s) = 1 THEN s[1]
            ELSE LET m == NpMin(Tail(s)) IN IF RLess(s[1], m) THEN s[1] ELSE m

RECURSIVE NpMax(_)
NpMax(s) == IF Len(s) = 1 THEN s[1]
            ELSE LET m == NpMax(Tail(s)) IN IF RLess(m, s[1]) THEN s[1] ELSE m

DTypes == {"int", "float"}

\* ndarray.astype(new_dtype) for a dtype numpy knows
astype(a, new_dtype) ==
    IF new_dtype = "int"
    THEN Array("int", [i \in 1..Len(a.items) |-> Rat(Trunc(a.items[i]), 1)])
    ELSE Array("float", a.items)

\* rescale_numpy_array (true division: the result is a float array)
rescale_numpy_array(a, old_range, new_range) ==
    LET old_min == Rat(old_range[1], 1)
        new_min == Rat(new_range[1], 1)
        old_delta == Rat(old_range[2] - old_range[1], 1)
        new_delta == Rat(new_range[2] - new_range[1], 1)
    IN Array("float",
             [i \in 1..Len(a.items) |->
                 RAdd(new_min, RDiv(RMul(RSub(a.items[i], old_min), new_delta),
                                    old_delta))])

\* ---------------------------------------------------------------- datasets

\* the arrays an .npz file may hold under 'data' and under 'labels'
DataArray(n) == Array("float", [i \in 1..n |-> Rat(i - 1, 2)])
LabelArray(n) == Array("int", [i \in 1..n |-> Rat(i, 1)])

\* the files load_dataset is called with. ext: the name ends in .npz;
\* readable: np.load succeeds; data, labels: the arrays stored under these
\* keys, <<>> when the file has no such key
File(ext, readable, d, l) ==
    [ext |-> ext, readable |-> readable, data |-> d, labs |-> l]

Files ==
    {File(TRUE, TRUE, <<DataArray(n)>>, <<LabelArray(n)>>) : n \in 0..MaxLen}
    \cup {File(TRUE, TRUE, <<DataArray(MaxLen)>>, <<LabelArray(MaxLen - 1)>>),
          File(TRUE, TRUE, <<DataArray(1)>>, <<>>),
          File(TRUE, TRUE, <<>>, <<LabelArray(1)>>),
          File(FALSE, TRUE, <<DataArray(1)>>, <<LabelArray(1)>>),
          File(TRUE, FALSE, <<>>, <<>>)}

\* the split arguments: a float num/4, an int num, or neither
SplitArgs ==
    [type : {"float"}, num : {-1, 1, 2, 5}]
    \cup [type : {"int"}, num : {-1, 1, MaxLen}]
    \cup [type : {"other"}, num : {0}]

\* the ranges rescale_inputs is called with (old_min < old_max throughout:
\* a division by zero yields nan, which the elements do not model; the
\* new range lies above the old one, so that a rescaled array leaves it)
OldRanges == {<<0, 1>>}
NewRanges == {<<2, 4>>, <<1, 1>>}

\* new_dtype: None, a dtype, or a name numpy rejects
NewDTypes == {"None", "int", "bogus"}

\* a dataset call that returned: its name, whether it returned without an
\* error, and its argument (load_dataset: the number of items under 'data',
\* split_dataset: the split)
NoArg == [type |-> "", num |-> 0]

DCall(op, ok, arg) == [op |-> op, ok |-> ok, arg |-> arg]

Items(file) == [type |-> "file",
                num |-> IF file.data = <<>> THEN -1 ELSE Len(file.data[1].items)]

DataInit ==
    /\ inputs = <<>>
    /\ labels = <<>>
    /\ dataset_size = <<>>
    /\ inputs_range = <<>>
    /\ split = <<>>
    /\ train_inputs = <<>>
    /\ test_inputs = <<>>
    /\ train_labels = <<>>
    /\ test_labels = <<>>
    /\ dlast = DCall("none", TRUE, NoArg)

\* the float case rounded to the nearest count, round(dataset_size * split),
\* where the code truncates
split_point_rounded(n, arg) ==
    IF arg.type = "float"
    THEN IF 0 <= arg.num /\ arg.num <= 4 THEN <<(2 * n * arg.num + 4) \div 8>> ELSE <<>>
    ELSE IF arg.type = "int"
    THEN IF 0 <= arg.num /\ arg.num <= n THEN <<arg.num>> ELSE <<>>
    ELSE <<>>

\* split_dataset, lines 103-112: the split point, <<>> when it raises
split_point(n, arg) ==
    IF arg.type = "float"
    THEN IF 0 <= arg.num /\ arg.num <= 4 THEN <<(n * arg.num) \div 4>> ELSE <<>>
    ELSE IF arg.type = "int"
    THEN IF 0 <= arg.num /\ arg.num <= n THEN <<arg.num>> ELSE <<>>
    ELSE <<>>

\* split_dataset, lines 113-116, on the arrays inp and lab
Partition(inp, lab, sp) ==
    /\ split' = <<sp>>
    /\ train_inputs' = <<ArrPrefix(inp, sp)>>
    /\ test_inputs' = <<ArrSuffix(inp, sp)>>
    /\ train_labels' = <<ArrPrefix(lab, sp)>>
    /\ test_labels' = <<ArrSuffix(lab, sp)>>

\* load_dataset calling split_dataset() with its default split=0.50
load_split_arg_default(n) == [type |-> "float", num |-> 2]

\* load_dataset, line 59: the argument of its split_dataset call
load_split_arg(n) == [type |-> "int", num |-> n]

\* Network.load_dataset
load_dataset(file) ==
    /\ dlast' = DCall("load_dataset",
                      /\ file.ext
                      /\ file.readable
                      /\ file.data # <<>>
                      /\ file.labs # <<>>
                      /\ Len(file.data[1].items) = Len(file.labs[1].items)
                      /\ Len(file.data[1].items) # 0,
                      Items(file))
    /\ IF ~file.ext \/ ~file.readable \/ file.data = <<>>
       THEN \* lines 48, 50, 51 raise: nothing is assigned
            UNCHANGED data_vars
       ELSE IF file.labs = <<>>
       THEN \* line 52 raises after line 51 has assigned self.inputs
            /\ inputs' = file.data
            /\ UNCHANGED <<labels, dataset_size, inputs_range, split, train_inputs,
                           test_inputs, train_labels, test_labels>>
       ELSE IF \/ Len(file.data[1].items) # Len(file.labs[1].items)
               \/ Len(file.data[1].items) = 0
       THEN \* lines 54, 56 raise after lines 51-52
            /\ inputs' = file.data
            /\ labels' = file.labs
            /\ UNCHANGED <<dataset_size, inputs_range, split, train_inputs,
                           test_inputs, train_labels, test_labels>>
       ELSE LET n == Len(file.data[1].items)
            IN /\ inputs' = file.data
               /\ labels' = file.labs
               /\ dataset_size' = <<n>>
               /\ inputs_range' = <<NpMin(file.data[1].items),
                                    NpMax(file.data[1].items)>>
               /\ Partition(file.data[1], file.labs[1],
                            split_point(n, load_split_arg(n))[1])
    /\ UNCHANGED graph_vars

\* Network.split_dataset
split_dataset(arg) ==
    /\ IF dataset_size = <<>> \/ split_point(dataset_size[1], arg) = <<>>
       THEN \* line 101 (no dataset_size attribute), 105, 109, 112 raise
            /\ dlast' = DCall("split_dataset", FALSE, arg)
            /\ UNCHANGED data_vars
       ELSE /\ dlast' = DCall("split_dataset", TRUE, arg)
            /\ Partition(inputs[1], labels[1], split_point(dataset_size[1], arg)[1])
            /\ UNCHANGED <<inputs, labels, dataset_size, inputs_range>>
    /\ UNCHANGED graph_vars

\* a[indices] for indices a permutation of 0..n-1, given as perm over 1..n
Take(a, perm) == Array(a.dtype, [i \in DOMAIN perm |-> a.items[perm[i]]])

Perms(n) == {p \in [1..n -> 1..n] : \A i, j \in 1..n : p[i] = p[j] => i = j}

\* Network.reshuffle_dataset
reshuffle_dataset(perm) ==
    /\ IF dataset_size = <<>>
       THEN \* line 91: no dataset_size attribute
            /\ perm = <<>>
            /\ dlast' = DCall("reshuffle_dataset", FALSE, NoArg)
            /\ UNCHANGED data_vars
       ELSE /\ perm \in Perms(dataset_size[1])
            /\ IF Len(inputs[1].items) < dataset_size[1]
               THEN \* line 94: an index is out of bounds
                    /\ dlast' = DCall("reshuffle_dataset", FALSE, NoArg)
                    /\ UNCHANGED data_vars
               ELSE IF Len(labels[1].items) < dataset_size[1]
               THEN \* line 95 raises after line 94 has assigned self.inputs
                    /\ dlast' = DCall("reshuffle_dataset", FALSE, NoArg)
                    /\ inputs' = <<Take(inputs[1], perm)>>
                    /\ UNCHANGED <<labels, dataset_size, inputs_range, split,
                                   train_inputs, test_inputs, train_labels,
                                   test_labels>>
               ELSE /\ dlast' = DCall("reshuffle_dataset", TRUE, NoArg)
                    /\ inputs' = <<Take(inputs[1], perm)>>
                    /\ labels' = <<Take(labels[1], perm)>>
                    /\ Partition(Take(inputs[1], perm), Take(labels[1], perm),
                                 split_point(dataset_size[1],
                                             [type |-> "int", num |-> split[1]])[1])
                    /\ UNCHANGED <<dataset_size, inputs_range>>
    /\ UNCHANGED graph_vars

\* Network.rescale_inputs
rescale_inputs(old_range, new_range, new_dtype) ==
    LET cast == IF new_dtype = "None" THEN inputs[1]
                ELSE astype(inputs[1], new_dtype)
        fail == DCall("rescale_inputs", FALSE, NoArg)
    IN
    /\ IF inputs = <<>> \/ new_dtype \notin DTypes \cup {"None"}
       THEN \* line 78 or 81 (no inputs attribute), or astype raises
            /\ dlast' = fail
            /\ UNCHANGED data_vars
       ELSE IF \/ Len(cast.items) = 0
               \/ RLess(NpMin(cast.items), Rat(old_range[1], 1))
               \/ RLess(Rat(old_range[2], 1), NpMax(cast.items))
               \/ new_range[1] >= new_range[2]
       THEN \* np.min of an empty array, line 82 or line 84 raises after
            \* line 78 has assigned self.inputs
            /\ dlast' = fail
            /\ inputs' = <<cast>>
            /\ UNCHANGED <<labels, dataset_size, inputs_range, split, train_inputs,
                           test_inputs, train_labels, test_labels>>
       ELSE /\ dlast' = DCall("rescale_inputs", TRUE, NoArg)
            /\ inputs' = <<rescale_numpy_array(cast, old_range, new_range)>>
            /\ inputs_range' =
                   <<NpMin(rescale_numpy_array(cast, old_range, new_range).items),
                     NpMax(rescale_numpy_array(cast, old_range, new_range).items)>>
            /\ UNCHANGED <<labels, dataset_size, split, train_inputs, test_inputs,
                           train_labels, test_labels>>
    /\ UNCHANGED graph_vars

DataNext ==
    \/ \E file \in Files : load_dataset(file)
    \/ \E arg \in SplitArgs : split_dataset(arg)
    \/ \E perm \in {<<>>} \cup UNION {Perms(n) : n \in 1..MaxLen} : reshuffle_dataset(perm)
    \/ \E o \in OldRanges, n \in NewRanges, d \in NewDTypes : rescale_inputs(o, n, d)

\* ------------------------------------------------------ the specifications

Init == GraphInit /\ DataInit

Next == GraphNext

\* the Network's graph, compile and propagate
Spec == Init /\ [][Next]_vars

\* a compile call, once made, runs on: nothing else runs while it does
FairSpec == Spec /\ WF_vars(CompileLayer) /\ WF_vars(ChainDescend)
                 /\ WF_vars(ChainOverflow) /\ WF_vars(ChainReturn)
                 /\ WF_vars(\E built \in BOOLEAN, configured \in BOOLEAN :
                                CompileFinish(built, configured))

\* the Network's dataset operations
DataSpecInit == Init /\ dropout["input1"] = 0

DataSpec == DataSpecInit /\ [][DataNext]_vars

\* ------------------------------------------------------------- the claims

\* C1: after any sequence of connect calls, b occurs in a.outgoing_connections
\* as often as a occurs in b.incoming_connections, for all layers a and b; and
\* right after a successful connect(a, b), b is in a.outgoing_connections and
\* a is in b.incoming_connections.
C1_ConnectionsReciprocal ==
    /\ \A a \in LayerNames, b \in LayerNames :
           Count(b, outgoing[a]) = Count(a, incoming[b])
    /\ (last.op = "connect" /\ last.ok) =>
           /\ Count(last.b, outgoing[last.a]) > 0
           /\ Count(last.a, incoming[last.b]) > 0

\* a connect that succeeded after a failed one, duplicating a connection
C1_Witness ==
    /\ last.op = "connect"
    /\ last.ok
    /\ Count(last.b, outgoing[last.a]) = 2

\* C2: connect fails whenever from_name or to_name (or both) is not a key of
\* layer_dict, and such a call leaves every layer's incoming_connections and
\* outgoing_connections as they were.
C2_UnknownNameFailsUnchanged ==
    [][(last'.op = "connect" /\ (last'.a \notin LayerNames \/ last'.b \notin LayerNames))
         => (~last'.ok /\ outgoing' = outgoing /\ incoming' = incoming)]_vars

\* connect(l, "missing") has failed on a layer l that has connections
C2_Witness ==
    /\ last.op = "connect"
    /\ ~last.ok
    /\ last.a \in LayerNames
    /\ last.b \notin LayerNames
    /\ outgoing[last.a] # <<>>

\* the kind the connection counts of l determine
C3_Expected(l) ==
    CASE Len(incoming[l]) = 0 /\ Len(outgoing[l]) = 0 -> "unconnected"
      [] Len(incoming[l]) = 0 /\ Len(outgoing[l]) > 0 -> "input"
      [] Len(incoming[l]) > 0 /\ Len(outgoing[l]) = 0 -> "output"
      [] Len(incoming[l]) > 0 /\ Len(outgoing[l]) > 0 -> "hidden"

\* C3: in every reachable state kind() of every layer is the one of
\* unconnected, input, hidden, output that the connection counts determine;
\* a kind() call changes no connection, and two kind() calls on a layer with
\* no call in between return the same value.
C3_KindFollowsConnections ==
    /\ [](/\ \A l \in LayerNames : kind(l) = C3_Expected(l)
          /\ last.op = "kind" => last.b = C3_Expected(last.a))
    /\ [][last'.op = "kind" =>
            /\ outgoing' = outgoing
            /\ incoming' = incoming
            /\ (last.op = "kind" /\ last.a = last'.a) => last'.b = last.b]_vars

\* kind() has returned hidden for a layer
C3_Witness ==
    /\ last.op = "kind"
    /\ last.b = "hidden"
    /\ Len(incoming[last.a]) > 0
    /\ Len(outgoing[last.a]) > 0

\* C4: the Network holds a model only if an earlier compile call returned
\* without error, and propagate with no earlier successful compile fails.
C4_ModelOnlyAfterSuccessfulCompile ==
    /\ model # <<>> => compiled_ok
    /\ (last.op = "propagate" /\ ~compiled_ok) => ~last.ok

C5_NumLayers == Len(LayerSeq)

\* the layer reached from l by following the first outgoing connection k
\* times, staying at a layer that has none
RECURSIVE C5_Walk(_, _)
C5_Walk(l, k) ==
    IF k = 0 THEN l
    ELSE LET w == C5_Walk(l, k - 1)
         IN IF outgoing[w] = <<>> THEN w ELSE outgoing[w][1]

\* the first-outgoing path from l revisits a layer: after as many steps as
\* there are layers it has not reached a layer without outgoing connections
C5_Revisits(l) == outgoing[C5_Walk(l, C5_NumLayers)] # <<>>

\* c is the first-outgoing path from l to the first layer without outgoing
\* connections
C5_IsFirstPath(l, c) ==
    /\ Len(c) >= 1
    /\ c[1] = l
    /\ \A i \in 1..(Len(c) - 1) : outgoing[c[i]] # <<>> /\ c[i + 1] = outgoing[c[i]][1]
    /\ outgoing[c[Len(c)]] = <<>>

C5_Ended == last.op = "compile" /\ last.b # "running"

DatasetOps == {"load_dataset", "split_dataset", "reshuffle_dataset", "rescale_inputs"}

\* C6: a dataset operation that raises leaves inputs, labels, dataset_size,
\* inputs_range, split and the train/test partitions as they were.
C6_FailedDatasetOpLeavesState ==
    [][(dlast'.op \in DatasetOps /\ ~dlast'.ok) => UNCHANGED data_vars]_vars

C7_Loaded == dlast.op = "load_dataset" /\ dlast.ok

\* C7 as stated: a successful load_dataset of n items sets dataset_size to n
\* and splits in half: split = floor(n/2), the train arrays are the first
\* floor(n/2) items and the test arrays the rest.
C7_LoadSplitsInHalf ==
    C7_Loaded =>
        LET n == dlast.arg.num
        IN /\ dataset_size = <<n>>
           /\ split = <<n \div 2>>
           /\ train_inputs = <<ArrPrefix(inputs[1], n \div 2)>>
           /\ test_inputs = <<ArrSuffix(inputs[1], n \div 2)>>
           /\ train_labels = <<ArrPrefix(labels[1], n \div 2)>>
           /\ test_labels = <<ArrSuffix(labels[1], n \div 2)>>

\* C7 amended: a successful load_dataset of n items sets dataset_size to n
\* and splits at n: split = n, the train arrays are all n items and the test
\* arrays are empty.
C7_LoadSplitsAtEnd ==
    C7_Loaded =>
        LET n == dlast.arg.num
        IN /\ dataset_size = <<n>>
           /\ Len(inputs[1].items) = n
           /\ Len(labels[1].items) = n
           /\ split = <<n>>
           /\ train_inputs = inputs
           /\ train_labels = labels
           /\ test_inputs = <<Array(inputs[1].dtype, <<>>)>>
           /\ test_labels = <<Array(labels[1].dtype, <<>>)>>

\* a dataset of two items has been loaded
C7_Witness == C7_Loaded /\ dlast.arg.num = 2 /\ dataset_size = <<2>>

\* the split argument is a fraction in [0,1] or a count in [0,dataset_size]
C8_Valid(arg) ==
    \/ arg.type = "float" /\ 0 <= arg.num /\ arg.num <= 4
    \/ arg.type = "int" /\ 0 <= arg.num /\ arg.num <= dataset_size[1]

\* C8: on a loaded dataset, split_dataset(s) with a valid s records a split
\* point in [0,dataset_size], makes the train arrays the prefix [0,split) and
\* the test arrays the suffix [split,end), so that train followed by test is
\* inputs (and labels); with any other s it fails.
C8_SplitRoundTrip ==
    (dlast.op = "split_dataset" /\ dataset_size # <<>>) =>
        IF C8_Valid(dlast.arg)
        THEN /\ dlast.ok
             /\ split[1] \in 0..dataset_size[1]
             /\ dlast.arg.type = "int" => split[1] = dlast.arg.num
             /\ dlast.arg.type = "float" =>
                    /\ 4 * split[1] <= dataset_size[1] * dlast.arg.num
                    /\ dataset_size[1] * dlast.arg.num < 4 * (split[1] + 1)
             /\ train_inputs[1].items = Prefix(inputs[1].items, split[1])
             /\ test_inputs[1].items = Suffix(inputs[1].items, split[1])
             /\ train_inputs[1].items \o test_inputs[1].items = inputs[1].items
             /\ train_labels[1].items \o test_labels[1].items = labels[1].items
             /\ train_inputs[1].dtype = inputs[1].dtype
             /\ test_inputs[1].dtype = inputs[1].dtype
        ELSE ~dlast.ok

\* split_dataset(0.5) has split a dataset of two items in the middle
C8_Witness ==
    /\ dlast.op = "split_dataset"
    /\ dlast.ok
    /\ dlast.arg.type = "float"
    /\ dataset_size = <<2>>
    /\ split = <<1>>
    /\ Len(train_inputs[1].items) = 1
    /\ Len(test_inputs[1].items) = 1

\* the descriptors of a layer that is not of kind input
C9_Other(l) ==
    IF dropout[l] > 0
    THEN <<Dense(size(l), activation(l)), Dropout(dropout[l])>>
    ELSE <<Dense(size(l), activation(l))>>

\* C9 as stated: make_keras_layers returns no descriptor for a layer of kind
\* input, whatever its dropout rate; for any other layer one dense descriptor
\* of width size with its activation, followed by one dropout descriptor iff
\* dropout > 0.
C9_InputLayersNoDescriptor ==
    \A l \in LayerNames :
        make_keras_layers(l) = IF kind(l) = "input" THEN <<>> ELSE C9_Other(l)

\* C9 amended: make_keras_layers returns, for a layer of kind input, no
\* descriptor when dropout = 0 and one dropout descriptor when dropout > 0;
\* for any other layer one dense descriptor of width size with its
\* activation, followed by one dropout descriptor iff dropout > 0.
C9_InputLayersOnlyDropout ==
    \A l \in LayerNames :
        make_keras_layers(l) =
            IF kind(l) = "input"
            THEN (IF dropout[l] > 0 THEN <<Dropout(dropout[l])>> ELSE <<>>)
            ELSE C9_Other(l)

\* compile has applied the descriptors of an input layer with dropout > 0
\* and of a layer that follows it
C9_Witness ==
    /\ last.op = "compile"
    /\ last.ok
    /\ \E l \in LayerNames :
           /\ kind(l) = "input"
           /\ dropout[l] > 0
           /\ chains[l] # <<>>
           /\ Len(chains[l][1]) >= 2
           /\ submodel[l] = <<KModel(One(Input(l)),
                                     One(Apply(<<Dropout(dropout[l])>>, Input(l))))>>

\* the descriptors of the layers c[1..i], in chain order
RECURSIVE C10_Descriptors(_, _)
C10_Descriptors(c, i) ==
    IF i = 0 THEN <<>> ELSE C10_Descriptors(c, i - 1) \o make_keras_layers(c[i])

\* the input layers, in the order of the layers sequence
C10_InputLayers == SelectSeq(LayerSeq, LAMBDA l : kind(l) = "input")

\* C10: after a successful compile, for every input layer I and every layer
\* L = I.chain()[i], the sub-model recorded on L maps I's placeholder to the
\* composition of the descriptors of the chain's layers up to L; and the
\* Network's model has one placeholder and one output per input layer, in the
\* order of the layers sequence.
C10_SubmodelsPerInput ==
    (last.op = "compile" /\ last.ok) =>
        /\ \A I \in LayerNames :
               kind(I) = "input" =>
                   /\ chains[I] # <<>>
                   /\ \A i \in 1..Len(chains[I][1]) :
                          submodel[chains[I][1][i]] =
                              <<KModel(One(Input(I)),
                                       One([src |-> I,
                                            ops |-> C10_Descriptors(chains[I][1], i)]))>>
        /\ model # <<>>
        /\ Len(model[1].ins.items) = Len(C10_InputLayers)
        /\ Len(model[1].outs.items) = Len(C10_InputLayers)
        /\ \A k \in 1..Len(C10_InputLayers) :
               /\ model[1].ins.items[k] = Input(C10_InputLayers[k])
               /\ model[1].outs.items[k] =
                      [src |-> C10_InputLayers[k],
                       ops |-> C10_Descriptors(chains[C10_InputLayers[k]][1],
                                               Len(chains[C10_InputLayers[k]][1]))]

====
